---- MODULE Spec2Model ----
(***************************************************************************)
(* Model of ase-dp/neb2dimer_dpa2.py: the NEB -> dimer -> vibration        *)
(* script, its DPDimer class and the main4dis selector.                    *)
(*                                                                         *)
(* Python lists are TLA+ sequences; the Python index k is position k+1.    *)
(* The external engines (ase.io, BFGS, DyNEB/FIRE, MinModeTranslate,       *)
(* Vibrations, the DP potential) are not modelled: what they return        *)
(* (energies, position differences, whether a file parses) is a            *)
(* nondeterministic choice from a small set.                               *)
(***************************************************************************)
EXTENDS Integers, Sequences, FiniteSets, TLC

VARIABLES
    argv,           \* sys.argv (argv[1] is the program name)
    pc,             \* position of the script / of the unit under check
    neb_traj,       \* module global neb_traj
    environ,        \* os.environ['OMP_NUM_THREADS']
    stdout,         \* tags of the messages printed so far
    exit_code,      \* -1 while running, else the process exit code
    exc,            \* "none" or the uncaught exception that ended the run
    open_r,         \* files currently open for reading
    open_w,         \* files currently open for writing
    written,        \* files created or truncated so far
    relaxed,        \* endpoint relaxations that have run
    calcs,          \* one entry per DP(...) constructed: site and thread hint seen
    images,         \* the NEB chain
    energies,       \* potential energy of each image after the path search
    TS_info,        \* index of the chosen transition-state image, -1 before
    ind_before_TS,  \* TS_info[0] - step_before_TS
    ind_after_TS,   \* TS_info[0] + step_after_TS
    image_vector,   \* img_before.positions - img_after.positions
    dimer,          \* the DPDimer object
    arg,            \* argument of the method call under check
    ret             \* what the last DPDimer method / main4dis call returned

vars == <<argv, pc, neb_traj, environ, stdout, exit_code, exc, open_r, open_w,
          written, relaxed, calcs, images, energies, TS_info, ind_before_TS,
          ind_after_TS, image_vector, dimer, arg, ret>>

----------------------------------------------------------------------------
(* Bounds of the model *)

\* sys.argv holds the program name and at most MaxArgs arguments
MaxArgs == 4
\* n_max of the script (8 at line 24), the number of interior images;
\* the chain construction is explored for small chains
n_max == 2
\* potential energies of the images are drawn from 0..MaxEnergy
MaxEnergy == 1
\* atoms of a Structure handed to the constraint mask builder
MaxAtoms == 5
\* constraints attached to a Structure
MaxConstraints == 2
\* atoms of a displacement field handed to set_d_mask_by_displacement
MaxDispAtoms == 2
\* its components are drawn from -MaxComp..MaxComp
MaxComp == 1
\* atoms of a displacement field handed to main4dis
MaxMainAtoms == 2
\* its components are drawn from 0..MaxMainComp (main4dis uses their squares only)
MaxMainComp == 1
\* constraints attached to the Structure in the DPDimer.run exploration
MaxRunConstraints == 1
\* atoms of the Structure in the DPDimer.run exploration
MaxRunAtoms == 2
\* length of an explicit moving_atoms_ind list
MaxIndLen == 1
\* thresholds of main4dis are thrNum/ThrDen with thrNum in 0..MaxThrNum
MaxThrNum == 10

----------------------------------------------------------------------------
(* Program constants *)

omp == 16
step_before_TS == 1
step_after_TS == 1
\* thr is kept as the fraction thrNum/ThrDen; the default 0.10 is 1/ThrDen
ThrDen == 10
DefaultThrNum == 1

DefaultNebTraj == "neb_dpa2_raw.traj"
dimer_traj == "dimer_dpa2.traj"

----------------------------------------------------------------------------
(* Python helpers *)

Digit(d) == <<"0", "1", "2", "3", "4", "5", "6", "7", "8", "9">>[d + 1]

\* f'{n}' of a non-negative int: its decimal text
RECURSIVE Format(_)
Format(n) == IF n < 10 THEN Digit(n) ELSE Format(n \div 10) \o Digit(n % 10)

\* position of Python index k in a list of length n, 0 when k raises IndexError
PyIndex(n, k) ==
    IF k >= 0 /\ k < n THEN k + 1
    ELSE IF k < 0 /\ k >= -n THEN n + k + 1
    ELSE 0

NoneVal == [isNone |-> TRUE, val |-> <<>>]
Some(v) == [isNone |-> FALSE, val |-> v]

\* truth value of an optional list: None and [] are falsy
Truthy(o) == ~o.isNone /\ Len(o.val) > 0

SqNorm(v) == v[1] * v[1] + v[2] * v[2] + v[3] * v[3]

RECURSIVE SumSq(_)
SumSq(rows) == IF rows = <<>> THEN 0 ELSE SqNorm(Head(rows)) + SumSq(Tail(rows))

----------------------------------------------------------------------------
(* class DPDimer *)

DPDimer(init_Atoms, p_omp, traj_file, init_eigenmode_method, displacement_vector) ==
    [init_Atoms |-> init_Atoms,
     omp |-> p_omp,
     traj_file |-> traj_file,
     init_eigenmode_method |-> init_eigenmode_method,
     displacement_vector |-> displacement_vector]

NoDimer == DPDimer([natoms |-> 0, constraints |-> <<>>], 1, "dimer.traj",
                   "displacement", NoneVal)

\* os.environ['OMP_NUM_THREADS'] after set_calculator
set_calculator(self) == Format(self.omp)

\* displacement_vector != np.zeros(3) is the elementwise comparison; [:,0] keeps
\* its first column. None != np.zeros(3) is one-dimensional, so [:,0] raises.
set_d_mask_by_displacement(self) ==
    IF self.displacement_vector.isNone
    THEN [exc |-> "IndexError", mask |-> <<>>]
    ELSE LET rows == self.displacement_vector.val
             neq == [k \in 1..Len(rows) |-> [c \in 1..3 |-> rows[k][c] # 0]]
         IN  [exc |-> "none", mask |-> [k \in 1..Len(rows) |-> neq[k][1]]]

set_d_mask_by_constraint(self) ==
    LET n == self.init_Atoms.natoms
        const == self.init_Atoms.constraints
    IN  IF const # <<>>
        THEN [exc |-> "none", mask |-> [k \in 1..n |-> (k - 1) \notin const[1]]]
        ELSE [exc |-> "none", mask |-> [k \in 1..n |-> TRUE]]

RECURSIVE MarkMoving(_, _)
MarkMoving(d_mask, inds) ==
    IF inds = <<>> THEN [exc |-> "none", mask |-> d_mask]
    ELSE LET p == PyIndex(Len(d_mask), Head(inds))
         IN  IF p = 0 THEN [exc |-> "IndexError", mask |-> <<>>]
             ELSE MarkMoving([d_mask EXCEPT ![p] = TRUE], Tail(inds))

set_d_mask_by_specified(self, moving_atoms_ind) ==
    MarkMoving([k \in 1..self.init_Atoms.natoms |-> FALSE], moving_atoms_ind)

\* MaskPolicy testing `moving_atoms_ind is not None` instead of its truth value
MaskPolicy_NotNone(method, moving_atoms_ind) ==
    IF method = "displacement"
    THEN IF ~moving_atoms_ind.isNone THEN "specified" ELSE "displacement"
    ELSE IF method = "gauss" THEN "constraint"
    ELSE "ValueError"

\* MaskPolicy whose last branch treats every other method as 'gauss'
MaskPolicy_NoElse(method, moving_atoms_ind) ==
    IF method = "displacement"
    THEN IF Truthy(moving_atoms_ind) THEN "specified" ELSE "displacement"
    ELSE "constraint"

\* the branch DPDimer.run takes: which mask builder it calls, "ValueError" in
\* the final else
MaskPolicy(method, moving_atoms_ind) ==
    IF method = "displacement"
    THEN IF Truthy(moving_atoms_ind) THEN "specified" ELSE "displacement"
    ELSE IF method = "gauss" THEN "constraint"
    ELSE "ValueError"

BuildMask(self, policy, moving_atoms_ind) ==
    IF policy = "specified" THEN set_d_mask_by_specified(self, moving_atoms_ind.val)
    ELSE IF policy = "displacement" THEN set_d_mask_by_displacement(self)
    ELSE set_d_mask_by_constraint(self)

\* DPDimer.run: what it did, in the order of the code
run(self, moving_atoms_ind) ==
    LET policy == MaskPolicy(self.init_eigenmode_method, moving_atoms_ind)
        base == [environ |-> set_calculator(self),
                 traj_opened |-> self.traj_file,
                 builders |-> <<>>,
                 d_mask |-> NoneVal,
                 minmode_built |-> FALSE,
                 displaced |-> FALSE,
                 translate_run |-> FALSE,
                 steps_persisted |-> FALSE,
                 exc |-> "none"]
    IN  IF policy = "ValueError"
        THEN [base EXCEPT !.exc = "ValueError"]
        ELSE LET m == BuildMask(self, policy, moving_atoms_ind)
             IN  IF m.exc # "none"
                 THEN [base EXCEPT !.builders = <<policy>>, !.exc = m.exc]
                 ELSE [base EXCEPT !.builders = <<policy>>,
                                   !.d_mask = Some(m.mask),
                                   !.minmode_built = TRUE,
                                   !.displaced = (policy # "constraint"),
                                   !.translate_run = TRUE,
                                   !.steps_persisted = TRUE]

----------------------------------------------------------------------------
(* main4dis *)

\* Exceeds with >= in place of >
Exceeds_OrEqual(rows, k, thrNum) ==
    SqNorm(rows[k]) * ThrDen * ThrDen >= thrNum * thrNum * SumSq(rows)

\* norm_vector[i] > thr, with norm_vector[i] = ||v_i|| / ||v|| and
\* thr = thrNum/ThrDen, compared on the squares (both sides are >= 0)
Exceeds(rows, k, thrNum) ==
    SqNorm(rows[k]) * ThrDen * ThrDen > thrNum * thrNum * SumSq(rows)

RECURSIVE Enumerate(_, _, _)
Enumerate(rows, k, thrNum) ==
    IF k > Len(rows) THEN <<>>
    ELSE (IF Exceeds(rows, k, thrNum) THEN <<k - 1>> ELSE <<>>)
         \o Enumerate(rows, k + 1, thrNum)

\* main_indices; norm_vector is returned as the squared norms over ||v||^2
main4dis(displacement_vector, thrNum) ==
    [main_indices |-> Enumerate(displacement_vector, 1, thrNum),
     norm_vector |-> [k \in 1..Len(displacement_vector) |->
                        <<SqNorm(displacement_vector[k]), SumSq(displacement_vector)>>]]

----------------------------------------------------------------------------
(* The script: module level of neb2dimer_dpa2.py *)

ProgName == "neb2dimer_dpa2.py"
HelpWords == {"-h", "--help"}
FileWords == {"a.traj", "b.stru"}

RECURSIVE ListsUpTo(_, _)
ListsUpTo(S, n) ==
    IF n = 0 THEN {<<>>}
    ELSE LET shorter == ListsUpTo(S, n - 1)
         IN  shorter \cup {Append(l, x) : l \in {m \in shorter : Len(m) = n - 1}, x \in S}

\* the command lines explored: up to MaxArgs file or format words, or one
\* help flag
ArgLists == ListsUpTo(FileWords, MaxArgs) \cup {<<h>> : h \in HelpWords}

\* the n x 3 fields with components in C
Fields(n, C) == [1..n -> [1..3 -> C]]

IsZeroField(f) == \A k \in 1..Len(f) : \A c \in 1..3 : f[k][c] = 0

\* position differences of two distinct NEB images (one atom, not all zero)
PipeFields == {f \in Fields(1, 0..1) : ~IsZeroField(f)}

NoCall == [call |-> "none"]

\* state of the process once lines 23-33 have run; the unit checks below start
\* from the same values with pc = "unit"
Globals ==
    /\ neb_traj = DefaultNebTraj
    /\ environ = "omp"
    /\ stdout = <<>>
    /\ exit_code = -1
    /\ exc = "none"
    /\ open_r = {}
    /\ open_w = {}
    /\ written = {}
    /\ relaxed = {}
    /\ calcs = <<>>
    /\ images = <<>>
    /\ energies = <<>>
    /\ TS_info = -1
    /\ ind_before_TS = -1
    /\ ind_after_TS = -1
    /\ arg = NoCall
    /\ ret = NoCall

Init ==
    /\ argv \in {<<ProgName>> \o a : a \in ArgLists}
    /\ pc = "parse"
    /\ dimer = NoDimer
    /\ image_vector = NoneVal
    /\ Globals

IsHelp(a) == a \in HelpWords

\* the branch of lines 43-65
InputMode(av) ==
    IF Len(av) < 2 THEN "usage"
    ELSE IF Len(av) = 2 THEN (IF IsHelp(av[2]) THEN "help" ELSE "traj")
    ELSE "files"

\* ResolveNebTraj without the assignment of line 51
ResolveNebTraj_Keep(av, cur) == cur

\* neb_traj after lines 43-65
ResolveNebTraj(av, cur) == IF InputMode(av) = "traj" THEN av[2] ELSE cur

\* the uncaught exception e ends the process with a traceback
Abort(e) ==
    /\ exc' = e
    /\ exit_code' = 1
    /\ pc' = "exit"

\* lines 43-51 and 57-63: pick the input mode
ParseArgs ==
    /\ pc = "parse"
    /\ neb_traj' = ResolveNebTraj(argv, neb_traj)
    /\ \/ /\ InputMode(argv) = "usage"
          /\ stdout' = Append(stdout, "usage")
          /\ exit_code' = 1
          /\ pc' = "exit"
       \/ /\ InputMode(argv) = "help"
          /\ stdout' = Append(stdout, "usage")
          /\ exit_code' = 0
          /\ pc' = "exit"
       \/ /\ InputMode(argv) = "traj"
          /\ pc' = "read_traj"
          /\ UNCHANGED <<stdout, exit_code>>
       \/ /\ InputMode(argv) = "files"
          /\ pc' = "read_init"
          /\ UNCHANGED <<stdout, exit_code>>
    /\ UNCHANGED <<argv, environ, exc, open_r, open_w, written, relaxed, calcs,
                   images, energies, TS_info, ind_before_TS, ind_after_TS,
                   image_vector, dimer, arg, ret>>

ReadPcs == {"read_traj", "read_init", "read_final"}

\* the file the read(...) at this position opens
InputFile ==
    IF pc = "read_traj" THEN neb_traj
    ELSE IF pc = "read_init" THEN argv[2]
    ELSE argv[3]

\* read(...) of lines 52, 64, 65 opens its file
BeginRead ==
    /\ pc \in ReadPcs
    /\ open_r = {}
    /\ open_r' = {InputFile}
    /\ UNCHANGED <<argv, pc, neb_traj, environ, stdout, exit_code, exc, open_w,
                   written, relaxed, calcs, images, energies, TS_info,
                   ind_before_TS, ind_after_TS, image_vector, dimer, arg, ret>>

\* read(...) has loaded every frame and closed the file; a file that does not
\* parse, or whose frames are not Atoms (line 55), ends the run
EndRead ==
    /\ pc \in ReadPcs
    /\ open_r # {}
    /\ open_r' = {}
    /\ \/ /\ pc' = (IF pc = "read_init" THEN "read_final" ELSE "bind")
          /\ UNCHANGED <<exc, exit_code>>
       \/ Abort(IF pc = "read_traj" THEN "AssertionError" ELSE "ReadError")
    /\ UNCHANGED <<argv, neb_traj, environ, stdout, open_w, written, relaxed,
                   calcs, images, energies, TS_info, ind_before_TS,
                   ind_after_TS, image_vector, dimer, arg, ret>>

\* DP(model=...) is constructed at `site` and sees the thread hint env
Constructed(site, env) == [site |-> site, env |-> env]

\* lines 67-68
BindCalculators ==
    /\ pc = "bind"
    /\ calcs' = calcs \o <<Constructed("atom_init", environ),
                           Constructed("atom_final", environ)>>
    /\ pc' = "relax_init"
    /\ UNCHANGED <<argv, neb_traj, environ, stdout, exit_code, exc, open_r,
                   open_w, written, relaxed, images, energies, TS_info,
                   ind_before_TS, ind_after_TS, image_vector, dimer, arg, ret>>

\* lines 69, 71
RelaxInit ==
    /\ pc = "relax_init"
    /\ relaxed' = relaxed \cup {"atom_init"}
    /\ pc' = "relax_final"
    /\ UNCHANGED <<argv, neb_traj, environ, stdout, exit_code, exc, open_r,
                   open_w, written, calcs, images, energies, TS_info,
                   ind_before_TS, ind_after_TS, image_vector, dimer, arg, ret>>

\* lines 70, 72
RelaxFinal ==
    /\ pc = "relax_final"
    /\ relaxed' = relaxed \cup {"atom_final"}
    /\ pc' = "write_init"
    /\ UNCHANGED <<argv, neb_traj, environ, stdout, exit_code, exc, open_r,
                   open_w, written, calcs, images, energies, TS_info,
                   ind_before_TS, ind_after_TS, image_vector, dimer, arg, ret>>

\* line 74
WriteInitOpted ==
    /\ pc = "write_init"
    /\ written' = written \cup {"init_opted.traj"}
    /\ pc' = "write_final"
    /\ UNCHANGED <<argv, neb_traj, environ, stdout, exit_code, exc, open_r,
                   open_w, relaxed, calcs, images, energies, TS_info,
                   ind_before_TS, ind_after_TS, image_vector, dimer, arg, ret>>

\* line 75
WriteFinalOpted ==
    /\ pc = "write_final"
    /\ written' = written \cup {"final_opted.traj"}
    /\ pc' = "chain"
    /\ UNCHANGED <<argv, neb_traj, environ, stdout, exit_code, exc, open_r,
                   open_w, relaxed, calcs, images, energies, TS_info,
                   ind_before_TS, ind_after_TS, image_vector, dimer, arg, ret>>

\* line 209
StartChain ==
    /\ pc = "chain"
    /\ images' = <<"atom_init">>
    /\ pc' = "loop"
    /\ UNCHANGED <<argv, neb_traj, environ, stdout, exit_code, exc, open_r,
                   open_w, written, relaxed, calcs, energies, TS_info,
                   ind_before_TS, ind_after_TS, image_vector, dimer, arg, ret>>

\* lines 210-213, one iteration of for i in range(n_max)
AddImage ==
    /\ pc = "loop"
    /\ Len(images) - 1 < n_max
    /\ images' = Append(images, "copy")
    /\ calcs' = Append(calcs, Constructed("image", environ))
    /\ UNCHANGED <<argv, pc, neb_traj, environ, stdout, exit_code, exc, open_r,
                   open_w, written, relaxed, energies, TS_info, ind_before_TS,
                   ind_after_TS, image_vector, dimer, arg, ret>>

\* lines 214-219, after the loop
EndChain ==
    /\ pc = "loop"
    /\ Len(images) - 1 >= n_max
    /\ images' = Append(images, "atom_final")
    /\ pc' = "open_traj"
    /\ UNCHANGED <<argv, neb_traj, environ, stdout, exit_code, exc, open_r,
                   open_w, written, relaxed, calcs, energies, TS_info,
                   ind_before_TS, ind_after_TS, image_vector, dimer, arg, ret>>

\* line 221: Trajectory(neb_traj, 'w', neb) creates or truncates the file and
\* keeps it open
OpenNebTraj ==
    /\ pc = "open_traj"
    /\ open_w' = open_w \cup {neb_traj}
    /\ written' = written \cup {neb_traj}
    /\ pc' = "neb"
    /\ UNCHANGED <<argv, neb_traj, environ, stdout, exit_code, exc, open_r,
                   relaxed, calcs, images, energies, TS_info, ind_before_TS,
                   ind_after_TS, image_vector, dimer, arg, ret>>

\* lines 222-223: the path search leaves each image with some energy
RunNeb ==
    /\ pc = "neb"
    /\ energies' \in [1..Len(images) -> 0..MaxEnergy]
    /\ pc' = "locate"
    /\ UNCHANGED <<argv, neb_traj, environ, stdout, exit_code, exc, open_r,
                   open_w, written, relaxed, calcs, images, TS_info,
                   ind_before_TS, ind_after_TS, image_vector, dimer, arg, ret>>

\* max([...]) of line 227, folded left to right
RECURSIVE MaxOf(_)
MaxOf(es) ==
    IF Len(es) = 1 THEN es[1]
    ELSE LET m == MaxOf(Tail(es)) IN IF es[1] >= m THEN es[1] ELSE m

\* [ind for ind, e in enumerate(es) if e == barrier], from position k on
RECURSIVE IndicesEqual(_, _, _)
IndicesEqual(es, barrier, k) ==
    IF k > Len(es) THEN <<>>
    ELSE (IF es[k] = barrier THEN <<k - 1>> ELSE <<>>) \o IndicesEqual(es, barrier, k + 1)

\* LocateIndex taking the last maximal image instead of the first
LocateIndex_Last(es) ==
    LET l == IndicesEqual(es, MaxOf(es), 1) IN l[Len(l)]

\* TS_info[0] of lines 227-232: element [0] of the list of maximal images
LocateIndex(es) == IndicesEqual(es, MaxOf(es), 1)[1]

\* lines 226-236
LocateTS ==
    /\ pc = "locate"
    /\ TS_info' = LocateIndex(energies)
    /\ stdout' = Append(stdout, "locate")
    /\ pc' = "handoff"
    /\ UNCHANGED <<argv, neb_traj, environ, exit_code, exc, open_r, open_w,
                   written, relaxed, calcs, images, energies, ind_before_TS,
                   ind_after_TS, image_vector, dimer, arg, ret>>

\* images[k] of lines 246-247 raises IndexError
LookupFails(n, k) == PyIndex(n, k) = 0

\* lines 244-252: the two flanking images and their position difference.
\* displacement_vector is image_vector scaled by a positive factor; the model
\* keeps the unscaled field, which has the same zero and non-zero entries.
Handoff ==
    /\ pc = "handoff"
    /\ ind_before_TS' = TS_info - step_before_TS
    /\ ind_after_TS' = TS_info + step_after_TS
    /\ IF \/ LookupFails(Len(images), ind_before_TS')
          \/ LookupFails(Len(images), ind_after_TS')
       THEN /\ Abort("IndexError")
            /\ UNCHANGED <<image_vector, stdout>>
       ELSE /\ image_vector' \in {Some(f) : f \in PipeFields}
            /\ stdout' = Append(stdout, "vector")
            /\ pc' = "make_dimer"
            /\ UNCHANGED <<exc, exit_code>>
    /\ UNCHANGED <<argv, neb_traj, environ, open_r, open_w, written, relaxed,
                   calcs, images, energies, TS_info, dimer, arg, ret>>

\* lines 256-262
MakeDimer ==
    /\ pc = "make_dimer"
    /\ dimer' = DPDimer([natoms |-> Len(image_vector.val), constraints |-> <<>>],
                        omp, dimer_traj, "displacement", image_vector)
    /\ pc' = "dimer_run"
    /\ UNCHANGED <<argv, neb_traj, environ, stdout, exit_code, exc, open_r,
                   open_w, written, relaxed, calcs, images, energies, TS_info,
                   ind_before_TS, ind_after_TS, image_vector, arg, ret>>

\* what a call dimer.run(moving_atoms_ind=ind) does to the process
RunEffects(ind) ==
    LET r == run(dimer, ind)
    IN  /\ arg' = [call |-> "run", moving_atoms_ind |-> ind]
        /\ ret' = r
        /\ environ' = r.environ
        /\ calcs' = Append(calcs, Constructed("dimer", r.environ))
        /\ open_w' = open_w \cup {r.traj_opened}
        /\ written' = written \cup {r.traj_opened}

\* line 263
DimerRun ==
    /\ pc = "dimer_run"
    /\ RunEffects(NoneVal)
    /\ IF ret'.exc # "none"
       THEN Abort(ret'.exc)
       ELSE /\ pc' = "export"
            /\ UNCHANGED <<exc, exit_code>>
    /\ UNCHANGED <<argv, neb_traj, stdout, open_r, relaxed, images, energies,
                   TS_info, ind_before_TS, ind_after_TS, image_vector, dimer>>

ExportFiles == {"IS_get.cif", "FS_get.cif", "TS_get.cif",
                "IS_get.stru", "FS_get.stru", "TS_get.stru"}

\* lines 266-290
Export ==
    /\ pc = "export"
    /\ written' = written \cup ExportFiles
    /\ stdout' = Append(stdout, "summary")
    /\ pc' = "vib"
    /\ UNCHANGED <<argv, neb_traj, environ, exit_code, exc, open_r, open_w,
                   relaxed, calcs, images, energies, TS_info, ind_before_TS,
                   ind_after_TS, image_vector, dimer, arg, ret>>

\* lines 293-295
SelectMainAtoms ==
    /\ pc = "vib"
    /\ arg' = [call |-> "main4dis", displacement_vector |-> image_vector.val,
               thrNum |-> DefaultThrNum]
    /\ ret' = main4dis(image_vector.val, DefaultThrNum)
    /\ pc' = "thermo"
    /\ UNCHANGED <<argv, neb_traj, environ, stdout, exit_code, exc, open_r,
                   open_w, written, relaxed, calcs, images, energies, TS_info,
                   ind_before_TS, ind_after_TS, image_vector, dimer>>

\* lines 304-309, then the script ends
Thermo ==
    /\ pc = "thermo"
    /\ written' = written \cup {"vib_ts_mode", "vib_is_mode", "vib_fs_mode"}
    /\ exit_code' = 0
    /\ pc' = "done"
    /\ UNCHANGED <<argv, neb_traj, environ, stdout, exc, open_r, open_w,
                   relaxed, calcs, images, energies, TS_info, ind_before_TS,
                   ind_after_TS, image_vector, dimer, arg, ret>>

Next ==
    \/ ParseArgs
    \/ BeginRead
    \/ EndRead
    \/ BindCalculators
    \/ RelaxInit
    \/ RelaxFinal
    \/ WriteInitOpted
    \/ WriteFinalOpted
    \/ StartChain
    \/ AddImage
    \/ EndChain
    \/ OpenNebTraj
    \/ RunNeb
    \/ LocateTS
    \/ Handoff
    \/ MakeDimer
    \/ DimerRun
    \/ Export
    \/ SelectMainAtoms
    \/ Thermo

Spec == Init /\ [][Next]_vars

----------------------------------------------------------------------------
(* Unit exploration of DPDimer's mask builders, DPDimer.run and main4dis:     *)
(* the object or the arguments are drawn in the initial state, one action     *)
(* makes the call.                                                            *)

Structures(maxAtoms, maxConstraints) ==
    UNION {{[natoms |-> n, constraints |-> cs] :
                cs \in ListsUpTo(SUBSET (0..(n - 1)), maxConstraints)} :
           n \in 1..maxAtoms}

UnitInit ==
    /\ argv = <<ProgName>>
    /\ pc = "unit"
    /\ Globals

\* set_d_mask_by_displacement on any displacement field
InitDisp ==
    /\ UnitInit
    /\ image_vector = NoneVal
    /\ dimer \in UNION {{DPDimer([natoms |-> n, constraints |-> <<>>], 1, "dimer.traj",
                                 "displacement", Some(f)) :
                            f \in Fields(n, (-MaxComp)..MaxComp)} :
                        n \in 1..MaxDispAtoms}

CallByDisplacement ==
    /\ pc = "unit"
    /\ arg' = [call |-> "set_d_mask_by_displacement"]
    /\ ret' = set_d_mask_by_displacement(dimer)
    /\ stdout' = Append(stdout, "mask by displacement")
    /\ pc' = "returned"
    /\ UNCHANGED <<argv, neb_traj, environ, exit_code, exc, open_r, open_w,
                   written, relaxed, calcs, images, energies, TS_info,
                   ind_before_TS, ind_after_TS, image_vector, dimer>>

NextDisp == CallByDisplacement

SpecDisp == InitDisp /\ [][NextDisp]_vars

\* set_d_mask_by_constraint on any Structure
InitConst ==
    /\ UnitInit
    /\ image_vector = NoneVal
    /\ dimer \in {DPDimer(a, 1, "dimer.traj", "displacement", NoneVal) :
                    a \in Structures(MaxAtoms, MaxConstraints)}

CallByConstraint ==
    /\ pc = "unit"
    /\ arg' = [call |-> "set_d_mask_by_constraint"]
    /\ ret' = set_d_mask_by_constraint(dimer)
    /\ stdout' = Append(stdout, IF dimer.init_Atoms.constraints # <<>>
                                THEN "mask by constraint"
                                ELSE "no constraint found")
    /\ pc' = "returned"
    /\ UNCHANGED <<argv, neb_traj, environ, exit_code, exc, open_r, open_w,
                   written, relaxed, calcs, images, energies, TS_info,
                   ind_before_TS, ind_after_TS, image_vector, dimer>>

NextConst == CallByConstraint

SpecConst == InitConst /\ [][NextConst]_vars

\* DPDimer.run on any object and any moving_atoms_ind
Methods == {"displacement", "gauss", "random"}

RunVecs == {<<0, 0, 0>>, <<1, 0, 0>>, <<0, 1, 0>>}

\* displacement_vector is given for the 'displacement' method only (docstring
\* of __init__), and may be left at its default None
RunVectors(method, n) ==
    {NoneVal} \cup (IF method = "displacement"
                    THEN {Some(f) : f \in [1..n -> RunVecs]}
                    ELSE {})

\* None, [] and the index lists over -1..n (n itself is out of range)
IndArgs(n) == {NoneVal} \cup {Some(l) : l \in ListsUpTo((-1)..n, MaxIndLen)}

InitRun ==
    /\ UnitInit
    /\ image_vector = NoneVal
    /\ dimer \in UNION {{DPDimer(a, omp, dimer_traj, m, v) :
                            v \in RunVectors(m, a.natoms)} :
                        a \in Structures(MaxRunAtoms, MaxRunConstraints), m \in Methods}

CallRun ==
    /\ pc = "unit"
    /\ \E ind \in IndArgs(dimer.init_Atoms.natoms) : RunEffects(ind)
    /\ exc' = ret'.exc
    /\ pc' = "returned"
    /\ UNCHANGED <<argv, neb_traj, stdout, exit_code, open_r, relaxed, images,
                   energies, TS_info, ind_before_TS, ind_after_TS,
                   image_vector, dimer>>

NextRun == CallRun

SpecRun == InitRun /\ [][NextRun]_vars

\* main4dis on any non-zero field and any threshold
InitMain ==
    /\ UnitInit
    /\ dimer = NoDimer
    /\ image_vector \in UNION {{Some(f) : f \in {g \in Fields(n, 0..MaxMainComp) :
                                                     ~IsZeroField(g)}} :
                               n \in 1..MaxMainAtoms}

CallMain4dis ==
    /\ pc = "unit"
    /\ \E t \in 0..MaxThrNum :
          /\ arg' = [call |-> "main4dis", displacement_vector |-> image_vector.val,
                     thrNum |-> t]
          /\ ret' = main4dis(image_vector.val, t)
    /\ pc' = "returned"
    /\ UNCHANGED <<argv, neb_traj, environ, stdout, exit_code, exc, open_r,
                   open_w, written, relaxed, calcs, images, energies, TS_info,
                   ind_before_TS, ind_after_TS, image_vector, dimer>>

NextMain == CallMain4dis

SpecMain == InitMain /\ [][NextMain]_vars

----------------------------------------------------------------------------
(* Properties *)

NArgs == Len(argv) - 1

\* C1: a command line with no argument, or with more arguments than the two
\* files and the format of the usage text, prints the usage message, exits
\* with a non-zero code, and has written no file and started no relaxation.
C1_UsageErrorOnWrongCount ==
    ((NArgs = 0 \/ NArgs > 3) /\ pc # "parse") =>
        /\ pc = "exit"
        /\ stdout = <<"usage">>
        /\ exit_code > 0
        /\ written = {}
        /\ relaxed = {}
        /\ open_r = {}

HandoffDone == TS_info >= 0 /\ pc \notin {"handoff", "locate"}

\* C2: once the handoff has run, if i-b < 0 or i+a exceeds the last index of
\* the chain, the run has ended in an IndexError, no displacement vector was
\* built and the dimer trajectory was never opened.
C2_OutOfRangeAborts ==
    (HandoffDone /\ (\/ TS_info - step_before_TS < 0
                     \/ TS_info + step_after_TS > Len(images) - 1)) =>
        /\ exc = "IndexError"
        /\ pc = "exit"
        /\ image_vector.isNone
        /\ dimer_traj \notin written

\* C3: set_d_mask_by_displacement marks atom k as moving exactly when its
\* 3-vector is not the zero vector.
C3_MaskIffNonZero ==
    (pc = "returned" /\ arg.call = "set_d_mask_by_displacement") =>
        /\ ret.exc = "none"
        /\ Len(ret.mask) = Len(dimer.displacement_vector.val)
        /\ \A k \in 1..Len(ret.mask) :
              ret.mask[k] <=> (dimer.displacement_vector.val[k] # <<0, 0, 0>>)

\* C4: set_d_mask_by_constraint marks atom k as fixed exactly when some
\* attached constraint (any of the list) covers it; with no constraint every
\* atom is moving.
C4_FixedIffCovered ==
    (pc = "returned" /\ arg.call = "set_d_mask_by_constraint") =>
        /\ Len(ret.mask) = dimer.init_Atoms.natoms
        /\ \A k \in 1..Len(ret.mask) :
              (~ret.mask[k]) <=>
                  (\E c \in 1..Len(dimer.init_Atoms.constraints) :
                      (k - 1) \in dimer.init_Atoms.constraints[c])

\* C9: every potential evaluator is constructed while OMP_NUM_THREADS holds
\* the decimal text of omp, "16".
C9_ThreadHintIsOmp ==
    \A i \in 1..Len(calcs) : calcs[i].env = "16"

\* squared magnitude of atom k's displacement
Magnitude2(f, k) == f[k][1] * f[k][1] + f[k][2] * f[k][2] + f[k][3] * f[k][3]

\* squared norm of the first n atoms of a field
RECURSIVE Norm2(_, _)
Norm2(f, n) == IF n = 0 THEN 0 ELSE Norm2(f, n - 1) + Magnitude2(f, n)

\* ||v_k|| / ||v|| > t/ThrDen
AboveThreshold(f, k, t) ==
    Magnitude2(f, k) * ThrDen * ThrDen > t * t * Norm2(f, Len(f))

IndexSet(l) == {l[j] : j \in 1..Len(l)}

StrictlyIncreasing(l) == \A i, j \in 1..Len(l) : i < j => l[i] < l[j]

Main4disReturned == pc = "returned" /\ arg.call = "main4dis"

\* main4dis returns, in increasing order, exactly the atoms above the threshold
Main4disExact ==
    /\ StrictlyIncreasing(ret.main_indices)
    /\ \A k \in 1..Len(arg.displacement_vector) :
          ((k - 1) \in IndexSet(ret.main_indices))
              <=> AboveThreshold(arg.displacement_vector, k, arg.thrNum)
    /\ IndexSet(ret.main_indices) \subseteq 0..(Len(arg.displacement_vector) - 1)

\* thr is at least the largest normalized magnitude
AtLeastLargest(f, t) == \A k \in 1..Len(f) : ~AboveThreshold(f, k, t)

\* C5 (as claimed): main4dis returns exactly the atoms whose normalized
\* magnitude exceeds thr, in increasing order; at thr = 0 it returns every atom
\* index, zero-displacement atoms included; it returns the empty list once thr
\* is at least the largest normalized magnitude.
C5_AllAtomsAtZeroThreshold ==
    Main4disReturned =>
        /\ Main4disExact
        /\ arg.thrNum = 0 =>
              IndexSet(ret.main_indices) = 0..(Len(arg.displacement_vector) - 1)
        /\ AtLeastLargest(arg.displacement_vector, arg.thrNum) =>
              ret.main_indices = <<>>

\* C5 (amended): main4dis returns exactly the atoms whose normalized magnitude
\* exceeds thr, in increasing order; at thr = 0 it returns exactly the atoms
\* whose displacement is not the zero vector, and an atom with zero
\* displacement is returned for no thr >= 0; it returns the empty list once
\* thr is at least the largest normalized magnitude.
C5_NonZeroAtomsAtZeroThreshold ==
    Main4disReturned =>
        /\ Main4disExact
        /\ arg.thrNum = 0 =>
              IndexSet(ret.main_indices) =
                  {k - 1 : k \in {j \in 1..Len(arg.displacement_vector) :
                                     arg.displacement_vector[j] # <<0, 0, 0>>}}
        /\ \A k \in 1..Len(arg.displacement_vector) :
              arg.displacement_vector[k] = <<0, 0, 0>>
                  => (k - 1) \notin IndexSet(ret.main_indices)
        /\ AtLeastLargest(arg.displacement_vector, arg.thrNum) =>
              ret.main_indices = <<>>

\* main4dis returned at thr = 0 on a field with a zero-displacement atom, which
\* it left out while returning another atom
C5_Witness ==
    /\ Main4disReturned
    /\ arg.thrNum = 0
    /\ \E k \in 1..Len(arg.displacement_vector) :
          /\ arg.displacement_vector[k] = <<0, 0, 0>>
          /\ (k - 1) \notin IndexSet(ret.main_indices)
    /\ ret.main_indices # <<>>

RunReturned == pc = "returned" /\ arg.call = "run"

Accepted(method) == method \in {"displacement", "gauss"}

MaskPerAtom ==
    ~ret.d_mask.isNone =>
        /\ Len(ret.d_mask.val) = dimer.init_Atoms.natoms
        /\ \A k \in 1..Len(ret.d_mask.val) : ret.d_mask.val[k] \in BOOLEAN

\* C6 (as claimed): in a run with an accepted method exactly one mask builder
\* is invoked, it is the explicit-list builder whenever the caller supplies an
\* index list, and the mask handed on holds one boolean per atom.
C6_ListAlwaysSelectsSpecified ==
    (RunReturned /\ Accepted(dimer.init_eigenmode_method)) =>
        /\ Len(ret.builders) = 1
        /\ ~arg.moving_atoms_ind.isNone => ret.builders = <<"specified">>
        /\ MaskPerAtom

\* C6 (amended): in a run with an accepted method exactly one mask builder is
\* invoked; it is the explicit-list builder exactly when the method is
\* 'displacement' and the caller supplies a non-empty index list, the
\* by-displacement builder when the method is 'displacement' and the list is
\* None or empty, and the by-constraint builder when the method is 'gauss';
\* the mask handed on holds one boolean per atom.
C6_OnePolicyPerRun ==
    (RunReturned /\ Accepted(dimer.init_eigenmode_method)) =>
        /\ Len(ret.builders) = 1
        /\ ret.builders[1] \in {"specified", "displacement", "constraint"}
        /\ (ret.builders = <<"specified">>) <=>
              /\ dimer.init_eigenmode_method = "displacement"
              /\ ~arg.moving_atoms_ind.isNone
              /\ arg.moving_atoms_ind.val # <<>>
        /\ (ret.builders = <<"constraint">>) <=>
              dimer.init_eigenmode_method = "gauss"
        /\ MaskPerAtom

\* a 'gauss' run that was given a non-empty index list and built its mask
\* from the constraints
C6_Witness ==
    /\ RunReturned
    /\ dimer.init_eigenmode_method = "gauss"
    /\ Truthy(arg.moving_atoms_ind)
    /\ ret.builders = <<"constraint">>
    /\ ~ret.d_mask.isNone

ChainBuilt == images # <<>> /\ pc # "loop"

\* C7: the chain has exactly n_max + 2 images, the relaxed initial image
\* first, the relaxed final image last and n_max copies between; the chosen
\* transition-state index lies in 0..n_max+1 and is the smallest index whose
\* energy equals the maximum over all images.
C7_ChainAndFirstMaximum ==
    /\ ChainBuilt =>
          /\ relaxed = {"atom_init", "atom_final"}
          /\ Len(images) = n_max + 2
          /\ images[1] = "atom_init"
          /\ images[Len(images)] = "atom_final"
          /\ \A k \in 2..(Len(images) - 1) : images[k] = "copy"
    /\ TS_info # -1 =>
          /\ TS_info \in 0..(n_max + 1)
          /\ \A j \in 1..Len(energies) : energies[j] <= energies[TS_info + 1]
          /\ \A j \in 1..TS_info : energies[j] < energies[TS_info + 1]

\* the transition state was located on a chain where a later image ties for
\* the maximum energy
C7_Witness ==
    /\ TS_info # -1
    /\ Len(images) = n_max + 2
    /\ \E j \in (TS_info + 2)..Len(energies) : energies[j] = energies[TS_info + 1]

\* C8: run with a method other than 'displacement' and 'gauss' ends in a
\* ValueError with no mask built, no MinModeAtoms, no MinModeTranslate.run
\* and no dimer step persisted; in 'gauss' mode the mask is the one derived
\* from the constraints, whatever moving_atoms_ind is.
C8_UnknownMethodFailsEarly ==
    RunReturned =>
        /\ ~Accepted(dimer.init_eigenmode_method) =>
              /\ ret.exc = "ValueError"
              /\ exc = "ValueError"
              /\ ret.builders = <<>>
              /\ ret.d_mask.isNone
              /\ ~ret.minmode_built
              /\ ~ret.displaced
              /\ ~ret.translate_run
              /\ ~ret.steps_persisted
        /\ dimer.init_eigenmode_method = "gauss" =>
              /\ ret.builders = <<"constraint">>
              /\ ret.exc = "none"
              /\ ret.d_mask = Some(set_d_mask_by_constraint(dimer).mask)

\* run was called on an object whose method is neither 'displacement' nor
\* 'gauss' and raised
C8_Witness ==
    /\ RunReturned
    /\ dimer.init_eigenmode_method = "random"
    /\ ret.exc = "ValueError"

SnapshotFiles == {"init_opted.traj", "final_opted.traj"}

\* the raw path trajectory file of the claim: the command-line path in
\* single-trajectory mode, the fixed name otherwise
RawPathFile == IF NArgs = 1 THEN argv[2] ELSE "neb_dpa2_raw.traj"

\* C10: the file opened for writing the raw path trajectory is the
\* command-line path in single-trajectory mode and neb_dpa2_raw.traj in
\* two-file mode; it is opened for writing only once the input has been read
\* and closed, both endpoint relaxations have run and both endpoint snapshots
\* are written; no file is open for reading and for writing at once.
C10_PathFileOpenedAfterInput ==
    /\ open_r \cap open_w = {}
    /\ open_w = {} => written \subseteq SnapshotFiles
    /\ open_w # {} =>
          /\ RawPathFile \in open_w
          /\ open_w \subseteq {RawPathFile, dimer_traj}
          /\ open_r = {}
          /\ pc \notin ({"parse"} \cup ReadPcs)
          /\ relaxed = {"atom_init", "atom_final"}
          /\ SnapshotFiles \subseteq written

\* single-trajectory mode with the input path open for writing
C10_Witness ==
    /\ NArgs = 1
    /\ argv[2] \in open_w
    /\ pc = "neb"

====
